---------------------------- MODULE Spec2Model ----------------------------
(***************************************************************************)
(* Model of the action-text parser of packages/ui-tars/action-parser:      *)
(* smartResizeForV15, parseAction and parseActionVlm (actionParser.ts).    *)
(*                                                                         *)
(* Strings are TLA+ strings, read character by character with SubSeq.      *)
(* Numbers are exact rationals [k |-> "num", n, d] (d > 0, lowest terms)   *)
(* or one of the IEEE specials NaN, Infinity, -Infinity; the rounding      *)
(* error of binary floating point is not modelled.                         *)
(***************************************************************************)
EXTENDS Integers, Sequences, FiniteSets, TLC

VARIABLES
    pc,                 \* "call" before the function runs, "done" after
    \* smartResizeForV15(height, width, maxRatio, factor, minPixels, maxPixels)
    resizeArgs, resizeRet,
    \* parseAction(actionStr)
    token, actionInstance,
    \* parseActionVlm(text, factors, mode, screenContext, scaleFactor, modelVer)
    text, factors, mode, screenContext, scaleFactor, modelVer,
    smartResizeFactors, reflection, thought, actionStr, actions

vars == <<pc, resizeArgs, resizeRet, token, actionInstance, text, factors,
          mode, screenContext, scaleFactor, modelVer, smartResizeFactors,
          reflection, thought, actionStr, actions>>

(***************************************************************************)
(* Option values: null / undefined is the empty sequence, a present value  *)
(* v is <<v>> (smartResizeFactors, a pair or null, is <<>> or <<w, h>>).    *)
(***************************************************************************)
Null == <<>>

Max(a, b) == IF a >= b THEN a ELSE b
Min(a, b) == IF a <= b THEN a ELSE b

(***************************************************************************)
(* smartResizeForV15 and its helpers, for positive integer arguments.      *)
(***************************************************************************)
\* Math.round(num / factor) * factor; Math.round rounds halves up
roundByFactor(num, factor) == ((2 * num + factor) \div (2 * factor)) * factor

\* Math.floor(Math.sqrt(q)) for an integer q >= 0: the greatest k in lo..hi
\* with k*k <= q, found by bisection
RECURSIVE isqrtBetween(_, _, _)
isqrtBetween(q, lo, hi) ==
    IF lo >= hi THEN lo
    ELSE LET mid == (lo + hi + 1) \div 2
         IN IF mid * mid <= q THEN isqrtBetween(q, mid, hi)
                              ELSE isqrtBetween(q, lo, mid - 1)

isqrt(q) == isqrtBetween(q, 0, Min(q, 46340))

\* floor(sqrt(d / c)) for d >= 0, c > 0: the k with k*k*c <= d < (k+1)*(k+1)*c,
\* which is the integer square root of floor(d / c)
FloorSqrtRatio(d, c) == isqrt(d \div c)

\* ceil(sqrt(d / c)) for d > 0, c > 0: the k with (k-1)*(k-1)*c < d <= k*k*c,
\* which is the least k whose square reaches ceil(d / c)
CeilSqrtRatio(d, c) ==
    LET q == IF d % c = 0 THEN d \div c ELSE d \div c + 1
        r == isqrt(q)
    IN IF r * r = q THEN r ELSE r + 1

\* floorByFactor(num / beta, factor) with beta = sqrt(height*width/maxPixels):
\* num / beta / factor = sqrt(num * maxPixels / (other * factor^2)), where
\* other is the other dimension (num * other = height * width).
floorByFactorShrunk(num, other, factor, maxPixels) ==
    FloorSqrtRatio(num * maxPixels, other * factor * factor) * factor

\* ceilByFactor(num * beta, factor) with beta = sqrt(minPixels/(height*width)):
\* num * beta / factor = sqrt(num * minPixels / (other * factor^2)).
ceilByFactorGrown(num, other, factor, minPixels) ==
    CeilSqrtRatio(num * minPixels, other * factor * factor) * factor

\* The candidate of lines 44-45, as <<wBar, hBar>>
roundedCandidate(height, width, factor) ==
    << Max(factor, roundByFactor(width, factor)),
       Max(factor, roundByFactor(height, factor)) >>

\* smartResizeForV15 failing already when the ratio equals maxRatio
smartResizeRatioInclusive(height, width, maxRatio, factor, minPixels, maxPixels) ==
    IF Max(height, width) >= maxRatio * Min(height, width) THEN Null
    ELSE LET c == roundedCandidate(height, width, factor) IN
         IF c[2] * c[1] > maxPixels
         THEN << floorByFactorShrunk(width, height, factor, maxPixels),
                 floorByFactorShrunk(height, width, factor, maxPixels) >>
         ELSE IF c[2] * c[1] < minPixels
         THEN << ceilByFactorGrown(width, height, factor, minPixels),
                 ceilByFactorGrown(height, width, factor, minPixels) >>
         ELSE c

\* smartResizeForV15 returning the height first
smartResizeSwapped(height, width, maxRatio, factor, minPixels, maxPixels) ==
    IF Max(height, width) > maxRatio * Min(height, width) THEN Null
    ELSE LET c == roundedCandidate(height, width, factor) IN
         IF c[2] * c[1] > maxPixels
         THEN << floorByFactorShrunk(height, width, factor, maxPixels),
                 floorByFactorShrunk(width, height, factor, maxPixels) >>
         ELSE IF c[2] * c[1] < minPixels
         THEN << ceilByFactorGrown(height, width, factor, minPixels),
                 ceilByFactorGrown(width, height, factor, minPixels) >>
         ELSE << c[2], c[1] >>

\* lines 28-58.  Math.max(h, w) / Math.min(h, w) > maxRatio, for positive
\* numbers, is max > maxRatio * min.
smartResizeForV15(height, width, maxRatio, factor, minPixels, maxPixels) ==
    IF Max(height, width) > maxRatio * Min(height, width) THEN Null
    ELSE LET c == roundedCandidate(height, width, factor) IN
         IF c[2] * c[1] > maxPixels
         THEN << floorByFactorShrunk(width, height, factor, maxPixels),
                 floorByFactorShrunk(height, width, factor, maxPixels) >>
         ELSE IF c[2] * c[1] < minPixels
         THEN << ceilByFactorGrown(width, height, factor, minPixels),
                 ceilByFactorGrown(height, width, factor, minPixels) >>
         ELSE c

(***************************************************************************)
(* String primitives (String.prototype and the regular-expression classes  *)
(* the parser uses).  Positions are 1-based.                               *)
(***************************************************************************)
charAt(s, i) == IF 1 <= i /\ i <= Len(s) THEN SubSeq(s, i, i) ELSE ""

substring(s, from, to) == SubSeq(s, from, to)

CharsOf(s) == { SubSeq(s, i, i) : i \in 1..Len(s) }

\* \s, and the characters String.prototype.trim removes
WhiteSpace == { " ", "\t", "\n", "\r" }
\* the characters "." does not match
LineTerminators == { "\n", "\r" }
LowerCase == "abcdefghijklmnopqrstuvwxyz"
UpperCase == "ABCDEFGHIJKLMNOPQRSTUVWXYZ"
Digits == CharsOf("0123456789")
\* \w
WordChars == CharsOf(LowerCase) \cup CharsOf(UpperCase) \cup Digits \cup {"_"}

\* The full-width colon U+FF1A of /Action[:：]/ (module text is ASCII only;
\* the character ";" stands for it and has no other use in the model).
FullWidthColon == ";"

\* the least and the greatest element of a non-empty set of positions
least(S) == CHOOSE x \in S : \A y \in S : x <= y
greatest(S) == CHOOSE x \in S : \A y \in S : x >= y

\* the least position of S, or none when there is no position
leastOr(S, none) == IF S = {} THEN none ELSE least(S)

startsWithAt(s, p, i) ==
    /\ i >= 1
    /\ i + Len(p) - 1 <= Len(s)
    /\ SubSeq(s, i, i + Len(p) - 1) = p

startsWith(s, p) == startsWithAt(s, p, 1)

\* s.indexOf(p, from); 0 when p does not occur at or after from
indexOf(s, p, from) ==
    leastOr({ i \in from..(Len(s) - Len(p) + 1) : startsWithAt(s, p, i) }, 0)

includes(s, p) == indexOf(s, p, 1) # 0

\* the first position >= i whose character is not in cs (Len(s)+1 if none)
skipWhile(s, cs, i) ==
    CHOOSE j \in i..(Max(Len(s), i - 1) + 1) :
        /\ j > Len(s) \/ charAt(s, j) \notin cs
        /\ \A k \in i..(j - 1) : charAt(s, k) \in cs

\* the first position >= i whose character is in cs (Len(s)+1 if none)
skipUntil(s, cs, i) ==
    CHOOSE j \in i..(Max(Len(s), i - 1) + 1) :
        /\ j > Len(s) \/ charAt(s, j) \in cs
        /\ \A k \in i..(j - 1) : charAt(s, k) \notin cs

\* the last position <= i whose character is not in cs (0 if none)
skipBackWhile(s, cs, i) ==
    CHOOSE j \in 0..i :
        /\ j = 0 \/ charAt(s, j) \notin cs
        /\ \A k \in (j + 1)..i : charAt(s, k) \in cs

trimStart(s) == SubSeq(s, skipWhile(s, WhiteSpace, 1), Len(s))

trimEnd(s) == SubSeq(s, 1, skipBackWhile(s, WhiteSpace, Len(s)))

trim(s) == trimEnd(trimStart(s))

\* s.replace(/p/g, r) for a literal pattern p: leftmost occurrences, not
\* overlapping
RECURSIVE replaceAllFrom(_, _, _, _)
replaceAllFrom(s, p, r, i) ==
    LET j == indexOf(s, p, i) IN
    IF j = 0 THEN SubSeq(s, i, Len(s))
    ELSE SubSeq(s, i, j - 1) \o r \o replaceAllFrom(s, p, r, j + Len(p))

replaceAll(s, p, r) == replaceAllFrom(s, p, r, 1)

\* s.toLowerCase(), letter by letter (the string is halved to reach them)
RECURSIVE toLowerCase(_)
toLowerCase(s) ==
    IF Len(s) = 0 THEN ""
    ELSE IF Len(s) = 1
         THEN LET u == indexOf(UpperCase, s, 1)
              IN IF u = 0 THEN s ELSE charAt(LowerCase, u)
    ELSE LET h == Len(s) \div 2
         IN toLowerCase(SubSeq(s, 1, h)) \o toLowerCase(SubSeq(s, h + 1, Len(s)))

(***************************************************************************)
(* parseAction (source lines 266-357)                                      *)
(***************************************************************************)
\* s.replace(/p1|p2|.../g, r) for literal alternatives: the leftmost
\* position where one matches, and there the first that does
RECURSIVE replaceAnyFrom(_, _, _, _)
replaceAnyFrom(s, ps, r, i) ==
    LET found == { indexOf(s, ps[k], i) : k \in 1..Len(ps) } \ {0} IN
    IF found = {} THEN SubSeq(s, i, Len(s))
    ELSE LET j == least(found)
             k == least({ m \in 1..Len(ps) : startsWithAt(s, ps[m], j) })
         IN SubSeq(s, i, j - 1) \o r \o replaceAnyFrom(s, ps, r, j + Len(ps[k]))

replaceAny(s, ps, r) == replaceAnyFrom(s, ps, r, 1)

\* s.replace(/\s+/g, r): every run of white space becomes r
RECURSIVE replaceSpaceRunsFrom(_, _, _)
replaceSpaceRunsFrom(s, r, i) ==
    LET j == skipUntil(s, WhiteSpace, i) IN
    IF j > Len(s) THEN SubSeq(s, i, Len(s))
    ELSE SubSeq(s, i, j - 1) \o r
         \o replaceSpaceRunsFrom(s, r, skipWhile(s, WhiteSpace, j))

replaceSpaceRuns(s, r) == replaceSpaceRunsFrom(s, r, 1)

\* s.replace(/(?<!start_|end_)point=/g, 'start_box='), line 275
RECURSIVE replaceBarePointFrom(_, _)
replaceBarePointFrom(s, i) ==
    LET j == indexOf(s, "point=", i) IN
    IF j = 0 THEN SubSeq(s, i, Len(s))
    ELSE IF ~ startsWithAt(s, "start_", j - 6) /\ ~ startsWithAt(s, "end_", j - 4)
         THEN SubSeq(s, i, j - 1) \o "start_box=" \o replaceBarePointFrom(s, j + 6)
         ELSE SubSeq(s, i, j) \o replaceBarePointFrom(s, j + 1)

\* the preprocessing without the renaming of point keys
normalizeNoRename(actionStr0) ==
    replaceAny(trim(actionStr0), << "<|box_start|>", "<|box_end|>" >>, "")

\* the preprocessing of lines 269-277
normalizeActionStr(actionStr0) ==
    LET stripped == replaceAny(trim(actionStr0),
                               << "<|box_start|>", "<|box_end|>" >>, "")
    IN replaceAll(replaceAll(replaceBarePointFrom(stripped, 1),
                             "start_point=", "start_box="),
                  "end_point=", "end_box=")

\* s.match(/^(\w+)\((.*)\)$/), line 280-281: Null, or <<name, argsStr>>
matchFunctionPattern(s) ==
    LET n == skipWhile(s, WordChars, 1) IN
    IF /\ n > 1
       /\ charAt(s, n) = "("
       /\ Len(s) >= n + 1
       /\ charAt(s, Len(s)) = ")"
       /\ skipUntil(s, LineTerminators, n + 1) > Len(s)
    THEN << SubSeq(s, 1, n - 1), SubSeq(s, n + 1, Len(s) - 1) >>
    ELSE Null

\* the end (exclusive) of the longest run of /([^,']|'[^']*')/ units from i
RECURSIVE argPairEnd(_, _)
argPairEnd(s, i) ==
    LET j == skipUntil(s, {",", "'"}, i) IN
    IF j > Len(s) \/ charAt(s, j) = "," THEN j
    ELSE LET k == indexOf(s, "'", j + 1) IN
         IF k = 0 THEN j ELSE argPairEnd(s, k + 1)

\* argsStr.match(/([^,']|'[^']*')+/g) || [], line 289
RECURSIVE matchArgPairs(_, _)
matchArgPairs(s, i) ==
    IF i > Len(s) THEN << >>
    ELSE LET e == argPairEnd(s, i) IN
         IF e = i THEN matchArgPairs(s, i + 1)
         ELSE << SubSeq(s, i, e - 1) >> \o matchArgPairs(s, e)

Quotes == { "'", "\"" }

\* v.replace(/^['"]|['"]$/g, ''), line 297
stripQuotes(v) ==
    LET a == IF charAt(v, 1) \in Quotes THEN 1 ELSE 0
        b == IF Len(v) >= 2 /\ charAt(v, Len(v)) \in Quotes THEN 1 ELSE 0
    IN SubSeq(v, 1 + a, Len(v) - b)

\* lines 300-307
convertTags(value0) ==
    LET v1 == IF includes(value0, "<bbox>")
              THEN "(" \o replaceSpaceRuns(
                       replaceAny(value0, << "<bbox>", "</bbox>" >>, ""), ",")
                   \o ")"
              ELSE value0
    IN IF includes(v1, "<point>")
       THEN "(" \o replaceSpaceRuns(
                replaceAny(v1, << "<point>", "</point>" >>, ""), ",")
            \o ")"
       ELSE v1

\* kwargs[key] = value on an object kept as the list of its entries in
\* insertion order: an existing key keeps its place
setKey(kwargs, key, value) ==
    IF \E i \in 1..Len(kwargs) : kwargs[i].key = key
    THEN [ i \in 1..Len(kwargs) |->
             IF kwargs[i].key = key THEN [key |-> key, value |-> value]
             ELSE kwargs[i] ]
    ELSE Append(kwargs, [key |-> key, value |-> value])

\* the loop of lines 291-311 from pair i on
RECURSIVE collectKwargs(_, _, _)
collectKwargs(argPairs, i, kwargs) ==
    IF i > Len(argPairs) THEN kwargs
    ELSE LET pair == argPairs[i]
             splitIdx == indexOf(pair, "=", 1)
         IN IF splitIdx = 0 THEN collectKwargs(argPairs, i + 1, kwargs)
            ELSE LET key == trim(SubSeq(pair, 1, splitIdx - 1))
                     value == convertTags(stripQuotes(
                                  trim(SubSeq(pair, splitIdx + 1, Len(pair)))))
                 IN collectKwargs(argPairs, i + 1, setKey(kwargs, key, value))

\* the heuristic vocabulary, line 324
commonActions == << "click", "type", "drag", "scroll", "wait", "hover",
                    "finished", "call_user" >>

\* commonActions.find(act => lowerStr.includes(act)), line 326: 0 if none
actionFoundIndex(lowerStr) ==
    LET hit == { k \in 1..Len(commonActions) :
                    includes(lowerStr, commonActions[k]) }
    IN IF hit = {} THEN 0 ELSE CHOOSE k \in hit : \A m \in hit : k <= m

\* the end (exclusive) of /\d+(?:\.\d+)?/ at p; p itself when no digit
decimalEnd(s, p) ==
    LET d == skipWhile(s, Digits, p) IN
    IF d = p THEN p
    ELSE IF charAt(s, d) = "." /\ charAt(s, d + 1) \in Digits
         THEN skipWhile(s, Digits, d + 1)
         ELSE d

\* /[([{]\s*(\d+(?:\.\d+)?)\s*,\s*(\d+(?:\.\d+)?)[\])}]/ anchored at i
coordMatchAt(s, i) ==
    LET p1 == skipWhile(s, WhiteSpace, i + 1)
        e1 == decimalEnd(s, p1)
        p2 == skipWhile(s, WhiteSpace, e1)
        p3 == skipWhile(s, WhiteSpace, p2 + 1)
        e2 == decimalEnd(s, p3)
    IN IF /\ charAt(s, i) \in {"(", "[", "{"}
          /\ e1 > p1
          /\ charAt(s, p2) = ","
          /\ e2 > p3
          /\ charAt(s, e2) \in {"]", ")", "}"}
       THEN << SubSeq(s, p1, e1 - 1), SubSeq(s, p3, e2 - 1) >>
       ELSE Null

\* actionStr.match(...) of line 330: the leftmost match, or Null (no match
\* is anchored at position 0)
coordMatch(s, i) ==
    coordMatchAt(s, leastOr({ j \in i..Len(s) : coordMatchAt(s, j) # Null }, 0))

\* The tail \s<rep>['"]?([^stops]+)['"]? of the two text patterns, where the
\* white-space run is from..q-1 and at least minWs of it must be consumed:
\* first with the whole run consumed (an optional quote, then the capture),
\* then, backtracking, with the run's last character given to the capture.
captureAfterSpaces(s, from, minWs, stops) ==
    LET q == skipWhile(s, WhiteSpace, from)
        ok(i) == i <= Len(s) /\ charAt(s, i) \notin stops
        run(i) == SubSeq(s, i, skipUntil(s, stops, i) - 1)
    IN IF q - from < minWs THEN Null
       ELSE IF charAt(s, q) \in Quotes /\ ok(q + 1) THEN << run(q + 1) >>
       ELSE IF ok(q) THEN << run(q) >>
       ELSE IF q - from > minWs THEN << run(q - 1) >>
       ELSE Null

\* /(?:text|value|input)\s*[:=]\s*['"]?([^'"}]+)['"]?/i anchored at i
labelledTextAt(s, lowerStr, i) ==
    LET kw == { w \in {"text", "value", "input"} : startsWithAt(lowerStr, w, i) }
    IN IF kw = {} THEN Null
       ELSE LET e == i + Len(CHOOSE w \in kw : TRUE)
                p == skipWhile(s, WhiteSpace, e)
            IN IF charAt(s, p) \in {":", "="}
               THEN captureAfterSpaces(s, p + 1, 0, Quotes \cup {"}"})
               ELSE Null

\* the leftmost match of the first pattern from i on
labelledText(s, lowerStr, i) ==
    labelledTextAt(s, lowerStr,
        leastOr({ j \in i..Len(s) : labelledTextAt(s, lowerStr, j) # Null }, 0))

\* /type\s+['"]?([^'"]+)['"]?/i anchored at i
typedTextAt(s, lowerStr, i) ==
    IF startsWithAt(lowerStr, "type", i)
    THEN captureAfterSpaces(s, i + 4, 1, Quotes)
    ELSE Null

\* the leftmost match of the second pattern from i on
typedText(s, lowerStr, i) ==
    typedTextAt(s, lowerStr,
        leastOr({ j \in i..Len(s) : typedTextAt(s, lowerStr, j) # Null }, 0))

\* lines 331-346 on the match results: cm is coordMatch, and textMatch is
\* the first pattern's match or else the second's
heuristicResult(actionFound, cm, labelled, typed) ==
    LET k1 == IF cm # Null
              THEN << [key |-> "start_box",
                       value |-> "(" \o cm[1] \o "," \o cm[2] \o ")"] >>
              ELSE << >>
        tm == IF labelled # Null THEN labelled ELSE typed
        k2 == IF actionFound = "type" /\ tm # Null
              THEN setKey(k1, "content", trim(tm[1]))
              ELSE k1
    IN [function |-> actionFound, args |-> k2]

\* lines 328-350, for the vocabulary word actionFound
heuristicCall(s, lowerStr, actionFound) ==
    heuristicResult(actionFound, coordMatch(s, 1),
                    labelledText(s, lowerStr, 1), typedText(s, lowerStr, 1))

\* lines 279-352 on the preprocessed string s
parseNormalized(s) ==
    LET match == matchFunctionPattern(s)
    IN IF match # Null
       THEN << [function |-> match[1],
                args |-> IF trim(match[2]) # ""
                         THEN collectKwargs(matchArgPairs(match[2], 1), 1, << >>)
                         ELSE << >>] >>
       ELSE LET lowerStr == toLowerCase(s)
                k == actionFoundIndex(lowerStr)
            IN IF k # 0
               THEN << heuristicCall(s, lowerStr, commonActions[k]) >>
               ELSE Null

\* parseAction: Null, or <<[function, args]>> with args the list of the
\* object's entries [key, value] in insertion order
parseAction(actionStr0) == parseNormalized(normalizeActionStr(actionStr0))

(***************************************************************************)
(* Numbers: [k |-> "num", n |-> numerator, d |-> denominator > 0] in       *)
(* lowest terms, or NaN, Infinity, -Infinity.                              *)
(***************************************************************************)
RECURSIVE GCD(_, _)
GCD(a, b) == IF b = 0 THEN a ELSE GCD(b, a % b)

Abs(x) == IF x < 0 THEN -x ELSE x
Sign(x) == IF x < 0 THEN -1 ELSE IF x > 0 THEN 1 ELSE 0

NaN == [k |-> "NaN", n |-> 0, d |-> 0]
Infinity == [k |-> "Infinity", n |-> 1, d |-> 0]
NegInfinity == [k |-> "-Infinity", n |-> -1, d |-> 0]

\* the rational n / d for d # 0
Rat(n, d) ==
    LET g == GCD(Abs(n), Abs(d))
    IN [k |-> "num", n |-> Sign(d) * (n \div g), d |-> Abs(d) \div g]

Whole(n) == [k |-> "num", n |-> n, d |-> 1]

isFinite(x) == x.k = "num"
InfinityOf(sign) == IF sign < 0 THEN NegInfinity ELSE Infinity

\* x + y
numAdd(x, y) ==
    IF x.k = "NaN" \/ y.k = "NaN" THEN NaN
    ELSE IF ~isFinite(x) /\ ~isFinite(y) THEN (IF x = y THEN x ELSE NaN)
    ELSE IF ~isFinite(x) THEN x
    ELSE IF ~isFinite(y) THEN y
    ELSE Rat(x.n * y.d + y.n * x.d, x.d * y.d)

\* x * y (the sign of a zero is not kept)
numMul(x, y) ==
    IF x.k = "NaN" \/ y.k = "NaN" THEN NaN
    ELSE IF ~isFinite(x) \/ ~isFinite(y)
         THEN (IF x.n = 0 \/ y.n = 0 THEN NaN ELSE InfinityOf(Sign(x.n) * Sign(y.n)))
    ELSE LET g1 == GCD(Abs(x.n), y.d)
             g2 == GCD(Abs(y.n), x.d)
         IN Rat((x.n \div g1) * (y.n \div g2), (x.d \div g2) * (y.d \div g1))

\* x / y
numDiv(x, y) ==
    IF x.k = "NaN" \/ y.k = "NaN" THEN NaN
    ELSE IF ~isFinite(x) /\ ~isFinite(y) THEN NaN
    ELSE IF ~isFinite(x) THEN InfinityOf(x.n * (IF y.n < 0 THEN -1 ELSE 1))
    ELSE IF ~isFinite(y) THEN Whole(0)
    ELSE IF y.n = 0 THEN (IF x.n = 0 THEN NaN ELSE InfinityOf(x.n))
    ELSE numMul(x, Rat(y.d, y.n))

\* Math.round: the nearest integer, halves towards +Infinity
mathRound(x) ==
    IF ~isFinite(x) THEN x ELSE Whole((2 * x.n + x.d) \div (2 * x.d))

RECURSIVE digitsValue(_, _, _, _)
digitsValue(s, i, to, acc) ==
    IF i > to THEN acc
    ELSE digitsValue(s, i + 1, to,
                     10 * acc + (indexOf("0123456789", charAt(s, i), 1) - 1))

RECURSIVE Pow10(_)
Pow10(e) == IF e = 0 THEN 1 ELSE 10 * Pow10(e - 1)

\* Number.parseFloat(s): leading white space, an optional sign, then
\* "Infinity" or digits with an optional fraction; NaN when there is no
\* such prefix.  (An exponent part is not read: no input of the model has
\* one.)
parseFloat(s) ==
    LET p == skipWhile(s, WhiteSpace, 1)
        neg == charAt(s, p) = "-"
        b == IF charAt(s, p) \in {"+", "-"} THEN p + 1 ELSE p
        e1 == skipWhile(s, Digits, b)
        hasDot == charAt(s, e1) = "."
        e2 == IF hasDot THEN skipWhile(s, Digits, e1 + 1) ELSE e1
        intDigits == e1 - b
        fracDigits == IF hasDot THEN e2 - (e1 + 1) ELSE 0
        sgn == IF neg THEN -1 ELSE 1
    IN IF startsWithAt(s, "Infinity", b) THEN InfinityOf(sgn)
       ELSE IF intDigits = 0 /\ fracDigits = 0 THEN NaN
       ELSE Rat(sgn * (digitsValue(s, b, e1 - 1, 0) * Pow10(fracDigits)
                       + digitsValue(s, e1 + 1, e2 - 1, 0)),
                Pow10(fracDigits))

(***************************************************************************)
(* parseActionVlm (source lines 91-260)                                    *)
(***************************************************************************)
\* The defaults of smartResizeForV15, imported from @ui-tars/shared/types
\* (source lines 9-12)
MAX_RATIO == 200
IMAGE_FACTOR == 28
MIN_PIXELS == 100 * IMAGE_FACTOR * IMAGE_FACTOR
MAX_PIXELS_V1_5 == 16384 * IMAGE_FACTOR * IMAGE_FACTOR

\* screenContext?.width && screenContext?.height (lines 109-110, 218)
hasScreen(sc) == sc # Null /\ sc[1].width # 0 /\ sc[1].height # 0

\* lines 106-116
resolveSmartResize(ver, sc) ==
    IF ver = "V1_5" /\ hasScreen(sc)
    THEN smartResizeForV15(sc[1].height, sc[1].width, MAX_RATIO, IMAGE_FACTOR,
                           MIN_PIXELS, MAX_PIXELS_V1_5)
    ELSE Null

\* /Action[:：]/ at position i
actionMarkerAt(s, i) ==
    startsWithAt(s, "Action:", i) \/ startsWithAt(s, "Action" \o FullWidthColon, i)

\* the lookahead (?=\s*Action[:：]|$) at position p
actionAhead(s, p) ==
    actionMarkerAt(s, skipWhile(s, WhiteSpace, p)) \/ p > Len(s)

\* The lazy capture (X+?)(?=\s*Action[:：]|$) starting at e, where X
\* matches every character but those of excluded: the end of the capture,
\* or 0 when there is no match.
lazyUntilAction(s, from, e, excluded) ==
    leastOr({ k \in e..(skipUntil(s, excluded, e) - 1) : actionAhead(s, k + 1) },
            0)

\* text.match(/Thought: ([\s\S]+?)(?=\s*Action[:：]|$)/), lines 122-124:
\* Null or <<capture>>
thoughtMatchBc(s) ==
    LET i == indexOf(s, "Thought: ", 1)
        e == IF i = 0 THEN 0 ELSE lazyUntilAction(s, i + 9, i + 9, {})
    IN IF e = 0 THEN Null ELSE << SubSeq(s, i + 9, e) >>

\* text.match(/Reflection: ([\s\S]+?)Action_Summary: ([\s\S]+?)
\* (?=\s*Action[:：]|$)/), lines 130-132: Null or <<capture 1, capture 2>>
reflectionMatchBc(s) ==
    LET i == indexOf(s, "Reflection: ", 1)
        j == IF i = 0 THEN 0 ELSE indexOf(s, "Action_Summary: ", i + 13)
        e == IF j = 0 THEN 0 ELSE lazyUntilAction(s, j + 16, j + 16, {})
    IN IF e = 0 THEN Null
       ELSE << SubSeq(s, i + 12, j - 1), SubSeq(s, j + 16, e) >>

\* text.match(/Action_Summary: (.+?)(?=\s*Action[:：]|$)/), lines 138-140,
\* leftmost match from position i on
RECURSIVE summaryMatchBc(_, _)
summaryMatchBc(s, i) ==
    LET j == indexOf(s, "Action_Summary: ", i)
        e == IF j = 0 THEN 0
             ELSE lazyUntilAction(s, j + 16, j + 16, LineTerminators)
    IN IF j = 0 THEN Null
       ELSE IF e # 0 THEN << SubSeq(s, j + 16, e) >>
       ELSE summaryMatchBc(s, j + 1)

\* the position after the first /Action[:：]/; 0 when none
firstMarkerEnd(s, i, last) ==
    LET a == indexOf(s, "Action:", 1)
        b == indexOf(s, "Action" \o FullWidthColon, 1)
    IN IF a = 0 /\ b = 0 THEN 0
       ELSE IF a = 0 THEN b + 7
       ELSE IF b = 0 THEN a + 7
       ELSE Min(a, b) + 7

\* the position after the last /Action[:：]/ at or after i (matches of the
\* pattern cannot overlap); last when there is none
lastMarkerEnd(s, i, last) ==
    LET hits == { j \in i..Len(s) : actionMarkerAt(s, j) }
    IN IF hits = {} THEN last ELSE greatest(hits) + 7

\* lines 146-152: the action string of the bc dialect
actionStrBc(s) ==
    IF ~ (includes(s, "Action:") \/ includes(s, "Action" \o FullWidthColon))
    THEN s
    ELSE SubSeq(s, lastMarkerEnd(s, 1, 0), Len(s))

\* The capture of /open\s*(.*?)\s*close/ with open matched just before
\* position q0: the lazy (.*?) ends at the first place from which, after
\* white space, close follows.  Null when the capture would have to cross a
\* line terminator.  (Giving back white space of the first \s* reaches no new
\* match: the capture would run over the same characters.)
lazyCapture(s, q, e, close) ==
    LET stop == skipUntil(s, LineTerminators, e)
        hits == { k \in e..stop :
                    startsWithAt(s, close, skipWhile(s, WhiteSpace, k)) }
    IN IF hits = {} THEN Null ELSE << SubSeq(s, q, least(hits) - 1) >>

\* text.match(/open\s*(.*?)\s*close/): the leftmost match from i on
RECURSIVE matchBetween(_, _, _, _)
matchBetween(s, open, close, i) ==
    LET j == indexOf(s, open, i) IN
    IF j = 0 THEN Null
    ELSE LET q == skipWhile(s, WhiteSpace, j + Len(open))
             m == lazyCapture(s, q, q, close)
         IN IF m # Null THEN m ELSE matchBetween(s, open, close, j + 1)

\* `${x}` for a capture or null
templateOf(m) == IF m = Null THEN "null" ELSE m[1]

\* every line between two newlines, blank ones included
RECURSIVE splitLinesUnfiltered(_, _)
splitLinesUnfiltered(s, i) ==
    LET e == skipUntil(s, {"\n"}, i)
    IN IF i > Len(s) THEN << >>
       ELSE << SubSeq(s, i, e - 1) >> \o splitLinesUnfiltered(s, e + 1)

\* actionStr.split(/\n+/).filter(a => a.trim() !== ''), line 172
RECURSIVE splitActions(_, _)
splitActions(s, i) ==
    LET b == skipWhile(s, {"\n"}, i)
        e == skipUntil(s, {"\n"}, b)
    IN IF b > Len(s) THEN << >>
       ELSE (IF trim(SubSeq(s, b, e - 1)) # ""
             THEN << SubSeq(s, b, e - 1) >> ELSE << >>)
            \o splitActions(s, e)

\* The values of action_inputs: a string, the JSON text of a number array
\* (held as the list of its elements), or a number array.
StringValue(str) == [t |-> "string", s |-> str, a |-> << >>]
ArrayValue(nums) == [t |-> "array", s |-> "", a |-> nums]

JsonNull == [k |-> "null", n |-> 0, d |-> 0]

\* JSON.stringify(floatNumbers), line 216: a finite number is written as
\* itself, NaN and the infinities as null
jsonStringify(nums) ==
    [t |-> "json", s |-> "",
     a |-> [ i \in 1..Len(nums) |-> IF isFinite(nums[i]) THEN nums[i] ELSE JsonNull ]]

\* obj[key] = value on a mapping
setInput(obj, key, value) == (key :> value) @@ obj

\* s.replace(/[()[\]]/g, ''), line 194
RECURSIVE removeBrackets(_, _)
removeBrackets(s, i) ==
    LET j == skipUntil(s, {"(", ")", "[", "]"}, i) IN
    IF j > Len(s) THEN SubSeq(s, i, Len(s))
    ELSE SubSeq(s, i, j - 1) \o removeBrackets(s, j + 1)

\* s.split(',').filter(ori => ori !== ''), lines 195-196
RECURSIVE splitCommas(_, _)
splitCommas(s, i) ==
    LET e == skipUntil(s, {","}, i)
    IN IF i > Len(s) THEN << >>
       ELSE (IF e > i THEN << SubSeq(s, i, e - 1) >> ELSE << >>)
            \o splitCommas(s, e + 1)

\* lines 211-214: a point is written twice
pointTwice(floatNumbers) ==
    IF Len(floatNumbers) = 2 THEN floatNumbers \o floatNumbers ELSE floatNumbers

\* the map of lines 197-209 over the number strings of a box
scaledNumbers(numbers, facs, ver, srf) ==
    [ idx \in 1..Len(numbers) |->
        LET factorIndex == ((idx - 1) % 2) + 1 IN
        IF ver = "V1_5" /\ srf # Null
        THEN numDiv(parseFloat(numbers[idx]), Whole(srf[factorIndex]))
        ELSE numDiv(parseFloat(numbers[idx]), Whole(facs[factorIndex])) ]

\* the numbers of a box, all divided by the width factor
floatNumbersSameFactor(oriBox, facs, ver, srf) ==
    LET numbers == splitCommas(removeBrackets(oriBox, 1), 1)
    IN pointTwice([ idx \in 1..Len(numbers) |->
                      numDiv(parseFloat(numbers[idx]), Whole(facs[1])) ])

\* lines 193-214: the numbers of a box, scaled, a point written twice
floatNumbersOf(oriBox, facs, ver, srf) ==
    pointTwice(scaledNumbers(splitCommas(removeBrackets(oriBox, 1), 1),
                             facs, ver, srf))

\* lodash isNumber on an element of [x1, y1, x2, y2] (line 225): true of
\* every value of type number, NaN and the infinities included; false of
\* undefined
isNumber(v) == v # Null

\* one coordinate without the scale factor
pixelOfUnscaled(a, b, extent, factor, sf) ==
    numDiv(mathRound(numMul(numMul(numDiv(numAdd(a, b), Whole(2)),
                                   Whole(extent)),
                            Whole(factor))),
           Whole(factor))

\* one coordinate of lines 227-236
pixelOf(a, b, extent, factor, sf) ==
    numMul(numDiv(mathRound(numMul(numMul(numDiv(numAdd(a, b), Whole(2)),
                                          Whole(extent)),
                                   Whole(factor))),
                  Whole(factor)),
           IF sf = Null THEN Whole(1) ELSE Whole(sf[1]))

\* lines 222-238: start_coords / end_coords of a box
boxCoords(fl, facs, sc, sf) ==
    LET x1 == IF Len(fl) >= 1 THEN << fl[1] >> ELSE Null
        y1 == IF Len(fl) >= 2 THEN << fl[2] >> ELSE Null
        x2 == IF Len(fl) >= 3 THEN << fl[3] >> ELSE x1
        y2 == IF Len(fl) >= 4 THEN << fl[4] >> ELSE y1
    IN IF \A v \in {x1, y1, x2, y2} : isNumber(v)
       THEN ArrayValue(<< pixelOf(x1[1], x2[1], sc[1].width, facs[1], sf),
                          pixelOf(y1[1], y2[1], sc[1].height, facs[2], sf) >>)
       ELSE ArrayValue(<< >>)

\* the parameter left as written
untrimmedParam(param) == param

\* param.trim(), line 188
trimmedParamOf(param) == trim(param)

\* the key test of line 190
isBoxKey(paramName) ==
    includes(paramName, "start_box") \/ includes(paramName, "end_box")

\* lines 216-239: what a box parameter with the numbers fl adds to the
\* inputs
boxInputs(inputs, paramName, fl, facs, sc, sf) ==
    LET in1 == setInput(inputs, trim(paramName), jsonStringify(fl))
        boxKey == IF includes(paramName, "start_box")
                  THEN "start_coords" ELSE "end_coords"
    IN IF hasScreen(sc)
       THEN setInput(in1, boxKey, boxCoords(fl, facs, sc, sf))
       ELSE in1

\* lines 186-248 from entry i of params on
RECURSIVE collectInputs(_, _, _, _, _, _, _, _)
collectInputs(params, i, inputs, facs, sc, sf, ver, srf) ==
    IF i > Len(params) THEN inputs
    ELSE LET paramName == params[i].key
             param == params[i].value
             trimmedParam == trimmedParamOf(param)
         IN IF param = ""
            THEN collectInputs(params, i + 1, inputs, facs, sc, sf, ver, srf)
            ELSE IF isBoxKey(paramName)
            THEN collectInputs(params, i + 1,
                               boxInputs(inputs, paramName,
                                         floatNumbersOf(trimmedParam, facs, ver, srf),
                                         facs, sc, sf),
                               facs, sc, sf, ver, srf)
            ELSE collectInputs(params, i + 1,
                               setInput(inputs, trim(paramName),
                                        StringValue(trimmedParam)),
                               facs, sc, sf, ver, srf)

NoInputs == << >>

\* lines 177-256: the action pushed for the instance parseAction returned
actionOfInstance(inst, refl, th, facs, sc, sf, ver, srf) ==
    [reflection |-> refl,
     thought |-> IF th = Null THEN "" ELSE th[1],
     action_type |-> IF inst # Null THEN inst[1].function ELSE "",
     action_inputs |-> IF inst # Null
                       THEN collectInputs(inst[1].args, 1, NoInputs,
                                          facs, sc, sf, ver, srf)
                       ELSE NoInputs]

\* one iteration of the loop of lines 175-257
parsedActionOf(rawStr, refl, th, facs, sc, sf, ver, srf) ==
    actionOfInstance(parseAction(trimStart(replaceAll(rawStr, "\\n", "\\n"))),
                     refl, th, facs, sc, sf, ver, srf)

\* the loop ending at the first token parseAction rejects
RECURSIVE parseAllStopAtNull(_, _, _, _, _, _, _, _, _)
parseAllStopAtNull(allActions, i, refl, th, facs, sc, sf, ver, srf) ==
    IF i > Len(allActions) THEN << >>
    ELSE IF parseAction(trimStart(allActions[i])) = Null THEN << >>
    ELSE << parsedActionOf(allActions[i], refl, th, facs, sc, sf, ver, srf) >>
         \o parseAllStopAtNull(allActions, i + 1, refl, th, facs, sc, sf, ver, srf)

\* the loop of lines 175-257 from token i on
RECURSIVE parseAll(_, _, _, _, _, _, _, _, _)
parseAll(allActions, i, refl, th, facs, sc, sf, ver, srf) ==
    IF i > Len(allActions) THEN << >>
    ELSE << parsedActionOf(allActions[i], refl, th, facs, sc, sf, ver, srf) >>
         \o parseAll(allActions, i + 1, refl, th, facs, sc, sf, ver, srf)

\* lines 118-169 give [reflection, thought, actionStr] of the trimmed text;
\* reflection and thought are Null or <<string>>.
\* lines 125-152 on the matches tm, rm and sm of lines 122-140
segmentBcOf(s, tm, rm, sm) ==
    [reflection |-> IF ~includes(s, "Thought:") /\ startsWith(s, "Reflection:")
                       /\ rm # Null
                    THEN << trim(rm[1]) >> ELSE Null,
     thought |-> IF includes(s, "Thought:")
                 THEN (IF tm # Null THEN << trim(tm[1]) >> ELSE Null)
                 ELSE IF startsWith(s, "Reflection:")
                 THEN (IF rm # Null THEN << trim(rm[2]) >> ELSE Null)
                 ELSE IF startsWith(s, "Action_Summary:")
                 THEN (IF sm # Null THEN << trim(sm[1]) >> ELSE Null)
                 ELSE Null,
     actionStr |-> actionStrBc(s)]

\* lines 119-152, with the three matches of lines 122-140
segmentBc(s) ==
    segmentBcOf(s, thoughtMatchBc(s), reflectionMatchBc(s), summaryMatchBc(s, 1))

\* lines 154-168 on thoughtContent, actionSummaryContent and actionContent
segmentO1Of(thoughtContent, actionSummaryContent, actionContent) ==
    [reflection |-> Null,
     thought |-> << templateOf(thoughtContent) \o "\n<Action_Summary>\n"
                    \o templateOf(actionSummaryContent) >>,
     actionStr |-> IF actionContent = Null THEN "" ELSE actionContent[1]]

\* lines 153-169
segmentO1(s) ==
    segmentO1Of(matchBetween(s, "<Thought>", "</Thought>", 1),
                matchBetween(s, "\nAction_Summary:", "Action:", 1),
                matchBetween(s, "\nAction:", "</Output>", 1))

segment(text0, md) ==
    IF md = "bc" THEN segmentBc(trim(text0))
    ELSE IF md = "o1" THEN segmentO1(trim(text0))
    ELSE [reflection |-> Null, thought |-> Null, actionStr |-> ""]

\* lines 172-259 on the segments seg and the resize factors srf: the locals
\* and the actions returned
parseSegments(seg, srf, facs, sc, sf, ver) ==
    [smartResizeFactors |-> srf,
     reflection |-> seg.reflection,
     thought |-> seg.thought,
     actionStr |-> seg.actionStr,
     parsed |-> parseAll(splitActions(seg.actionStr, 1), 1, seg.reflection,
                         seg.thought, facs, sc, sf, ver, srf)]

\* parseActionVlm, lines 91-260
parseActionVlm(text0, facs, md, sc, sf, ver) ==
    parseSegments(segment(text0, md), resolveSmartResize(ver, sc),
                  facs, sc, sf, ver)

(***************************************************************************)
(* Specification SpecResize: one call of smartResizeForV15 on arguments    *)
(* drawn from bounded sets.                                                *)
(***************************************************************************)
Unused == "unused"

MaxDim == 8
RatioSet == {2, 8}
FactorSet == {1, 2, 3}
PixelBudgets == { <<1, 6>>, <<1, 20>>, <<6, 6>>, <<6, 20>>, <<6, 50>>,
                  <<20, 20>>, <<20, 50>> }

ResizeInputs ==
    { [height |-> h, width |-> w, maxRatio |-> r, factor |-> f,
       minPixels |-> b[1], maxPixels |-> b[2]] :
        h \in 1..MaxDim, w \in 1..MaxDim, r \in RatioSet, f \in FactorSet,
        b \in PixelBudgets }

InitResize ==
    /\ pc = "call"
    /\ resizeArgs \in ResizeInputs
    /\ resizeRet = Null
    /\ token = Unused /\ actionInstance = Unused
    /\ text = Unused /\ factors = Unused /\ mode = Unused
    /\ screenContext = Unused /\ scaleFactor = Unused /\ modelVer = Unused
    /\ smartResizeFactors = Unused /\ reflection = Unused
    /\ thought = Unused /\ actionStr = Unused /\ actions = Unused

CallSmartResize ==
    /\ pc = "call"
    /\ pc' = "done"
    /\ resizeRet' = smartResizeForV15(resizeArgs.height, resizeArgs.width,
                        resizeArgs.maxRatio, resizeArgs.factor,
                        resizeArgs.minPixels, resizeArgs.maxPixels)
    /\ UNCHANGED <<resizeArgs, token, actionInstance, text, factors, mode,
                   screenContext, scaleFactor, modelVer, smartResizeFactors,
                   reflection, thought, actionStr, actions>>

SpecResize == InitResize /\ [][CallSmartResize]_vars

(***************************************************************************)
(* Claims about smartResizeForV15                                          *)
(***************************************************************************)
ResizeDone == pc = "done"

RatioAllowed(a) ==
    Max(a.height, a.width) <= a.maxRatio * Min(a.height, a.width)

\* the area of the candidate rounded to the factor (source lines 44-45),
\* restated from the arguments
CandidateArea(a) ==
    LET r(x) == IF 2 * (x % a.factor) >= a.factor
                THEN x - (x % a.factor) + a.factor
                ELSE x - (x % a.factor)
    IN Max(a.factor, r(a.width)) * Max(a.factor, r(a.height))

\* C8 as stated: for positive arguments with minPixels <= maxPixels and an
\* allowed aspect ratio, the result is a pair of positive multiples of factor
\* whose product lies within [minPixels, maxPixels].
C8_AsStated ==
    (ResizeDone /\ RatioAllowed(resizeArgs)) =>
        /\ resizeRet # Null
        /\ \A i \in {1, 2} : resizeRet[i] > 0
                             /\ resizeRet[i] % resizeArgs.factor = 0
        /\ resizeRet[1] * resizeRet[2] >= resizeArgs.minPixels
        /\ resizeRet[1] * resizeRet[2] <= resizeArgs.maxPixels

\* C8 amended: with an allowed aspect ratio the result is a pair in
\* width-then-height order of non-negative multiples of factor; its area is
\* at most maxPixels when the rounded candidate exceeded maxPixels, at least
\* minPixels (both numbers positive) when the candidate was below minPixels,
\* and otherwise within [minPixels, maxPixels] with both numbers positive.
C8_ResizeBudget ==
    (ResizeDone /\ RatioAllowed(resizeArgs)) =>
        LET a == resizeArgs
            area == resizeRet[1] * resizeRet[2]
        IN /\ resizeRet # Null
           /\ Len(resizeRet) = 2
           /\ \A i \in {1, 2} : resizeRet[i] >= 0 /\ resizeRet[i] % a.factor = 0
           /\ a.width > a.height => resizeRet[1] >= resizeRet[2]
           /\ a.width < a.height => resizeRet[1] <= resizeRet[2]
           /\ CandidateArea(a) > a.maxPixels => area <= a.maxPixels
           /\ CandidateArea(a) <= a.maxPixels =>
                 /\ area >= a.minPixels
                 /\ resizeRet[1] > 0 /\ resizeRet[2] > 0
           /\ (CandidateArea(a) <= a.maxPixels
               /\ CandidateArea(a) >= a.minPixels) => area <= a.maxPixels

\* a shrunk, non-square result: the candidate exceeded maxPixels
C8_Witness ==
    /\ ResizeDone /\ RatioAllowed(resizeArgs)
    /\ CandidateArea(resizeArgs) > resizeArgs.maxPixels
    /\ resizeRet # Null
    /\ resizeRet[1] > resizeRet[2] /\ resizeRet[2] > 0

(***************************************************************************)
(* Specification SpecParseAction: one call of parseAction on a token that  *)
(* is either written as name(k1='v1', k2='v2') from a name and up to       *)
(* MaxArgs key=value groups, or one of a few free-text lines.              *)
(***************************************************************************)
MaxArgs == 2

TokenNames == { "click", "left_double" }
FreeTextTokens == { "???", "click [200, 300]", "Type 'hi' please",
                    "{\"action\": \"type\", \"text\": \"hi\"}",
                    "hover{ 1.5 ,2}", "wait", "f(", "call_user()" }

\* the key=value groups: each key with three of the values
TokenGroups == {
    [key |-> "start_box", value |-> "(1,2)"],
    [key |-> "start_box", value |-> "<|box_start|>(3,4)<|box_end|>"],
    [key |-> "start_box", value |-> "<bbox>1 2 3 4</bbox>"],
    [key |-> "point", value |-> "(1,2)"],
    [key |-> "point", value |-> "<point>5 6</point>"],
    [key |-> "point", value |-> "go to point=7"],
    [key |-> "end_point", value |-> "<point>5 6</point>"],
    [key |-> "end_point", value |-> "<bbox>1 2 3 4</bbox>"],
    [key |-> "end_point", value |-> "a, b=c"],
    [key |-> "content", value |-> "a, b=c"],
    [key |-> "content", value |-> "go to point=7"],
    [key |-> "content", value |-> "<|box_start|>(3,4)<|box_end|>"] }

GroupLists == UNION { [1..n -> TokenGroups] : n \in 0..MaxArgs }

RECURSIVE renderGroups(_, _)
renderGroups(groups, i) ==
    IF i > Len(groups) THEN ""
    ELSE (IF i > 1 THEN ", " ELSE "")
         \o groups[i].key \o "='" \o groups[i].value \o "'"
         \o renderGroups(groups, i + 1)

\* the token text name(k1='v1', k2='v2')
renderToken(name, groups) == name \o "(" \o renderGroups(groups, 1) \o ")"

ParseActionInputs ==
    { [str |-> renderToken(n, g), wellFormed |-> TRUE, name |-> n, groups |-> g] :
        n \in TokenNames, g \in GroupLists }
    \cup
    { [str |-> t, wellFormed |-> FALSE, name |-> "", groups |-> << >>] :
        t \in FreeTextTokens }

InitParseAction ==
    /\ pc = "call"
    /\ token \in ParseActionInputs
    /\ actionInstance = Null
    /\ resizeArgs = Unused /\ resizeRet = Unused
    /\ text = Unused /\ factors = Unused /\ mode = Unused
    /\ screenContext = Unused /\ scaleFactor = Unused /\ modelVer = Unused
    /\ smartResizeFactors = Unused /\ reflection = Unused
    /\ thought = Unused /\ actionStr = Unused /\ actions = Unused

CallParseAction ==
    /\ pc = "call"
    /\ pc' = "done"
    /\ actionInstance' = parseAction(token.str)
    /\ UNCHANGED <<resizeArgs, resizeRet, token, text, factors, mode,
                   screenContext, scaleFactor, modelVer, smartResizeFactors,
                   reflection, thought, actionStr, actions>>

SpecParseAction == InitParseAction /\ [][CallParseAction]_vars

(***************************************************************************)
(* Claims about parseAction                                                *)
(***************************************************************************)
\* the args object as a mapping from its keys to their values
ArgsMap(kwargs) ==
    [ k \in { kwargs[i].key : i \in 1..Len(kwargs) } |->
        (CHOOSE e \in { kwargs[i] : i \in 1..Len(kwargs) } : e.key = k).value ]

\* the last group of the list whose key, read by keyOf, is k
LastValue(groups, keyOf(_), k) ==
    LET last == CHOOSE i \in 1..Len(groups) :
                    /\ keyOf(groups[i].key) = k
                    /\ \A j \in (i + 1)..Len(groups) : keyOf(groups[j].key) # k
    IN groups[last].value

RawKey(k) == k

\* the canonical spelling of a coordinate key (spec 4.3, preprocessing 2)
CanonicalKey(k) ==
    CASE k = "point" -> "start_box"
      [] k = "start_point" -> "start_box"
      [] k = "end_point" -> "end_box"
      [] OTHER -> k

\* the values of TokenGroups as they read after the parser's normalisation:
\* box-delimiter markers removed, point= rewritten, <bbox>/<point> content
\* as a parenthesised comma list
CanonicalValue(v) ==
    CASE v = "<|box_start|>(3,4)<|box_end|>" -> "(3,4)"
      [] v = "<bbox>1 2 3 4</bbox>" -> "(1,2,3,4)"
      [] v = "<point>5 6</point>" -> "(5,6)"
      [] v = "go to point=7" -> "go to start_box=7"
      [] OTHER -> v

ParseActionDone == pc = "done"

\* C3 as stated: a well-formed token name(k1='v1', k2='v2') parses to
\* function name and args {k1: 'v1', k2: 'v2'}: every group under its own
\* key with its unquoted value, and no other key.
C3_AsStated ==
    (ParseActionDone /\ token.wellFormed) =>
        /\ actionInstance # Null
        /\ actionInstance[1].function = token.name
        /\ ArgsMap(actionInstance[1].args) =
             [ k \in { token.groups[i].key : i \in 1..Len(token.groups) } |->
                 LastValue(token.groups, RawKey, k) ]

\* C3 amended: a well-formed token name(k1='v1', k2='v2') parses to function
\* name and to args holding every group's unquoted value under its trimmed
\* key as they read after the parser's normalisation of the token (key point
\* or start_point stored as start_box, end_point as end_box; box-delimiter
\* markers removed; point= rewritten inside values too; a <bbox>/<point>
\* value turned into a parenthesised comma list); a key written twice keeps
\* its last value, and no other key appears.
C3_WellFormedToken ==
    (ParseActionDone /\ token.wellFormed) =>
        /\ actionInstance # Null
        /\ actionInstance[1].function = token.name
        /\ ArgsMap(actionInstance[1].args) =
             [ k \in { CanonicalKey(token.groups[i].key) :
                         i \in 1..Len(token.groups) } |->
                 CanonicalValue(LastValue(token.groups, CanonicalKey, k)) ]

\* a two-group token with a renamed key and a value holding a comma and "="
C3_Witness ==
    /\ ParseActionDone /\ token.wellFormed
    /\ Len(token.groups) = 2
    /\ token.groups[1].key = "point"
    /\ token.groups[2] = [key |-> "content", value |-> "a, b=c"]
    /\ actionInstance # Null
    /\ Len(actionInstance[1].args) = 2

(***************************************************************************)
(* Specification Spec: one call of parseActionVlm.  The inputs are of two  *)
(* families: texts assembled from a thought prefix and up to MaxLines      *)
(* lines, parsed in the bc mode, and short texts (one line behind a        *)
(* prefix, texts of the o1 dialect) parsed in both modes, all with the     *)
(* default numeric arguments; and single-action texts whose box arguments, *)
(* factors, screen and model version vary without a scale factor, or whose *)
(* box arguments, screen, scale factor and model version vary.             *)
(***************************************************************************)
MaxLines == 3

TextPrefixes == { "", "Thought: go\n" }

SummaryPrefixes == { "Reflection: bad\nAction_Summary: retry\n",
                     "Action_Summary: sum\n" }

TextLines == { "", " ", "???", "click(start_box='(100,200)')",
               "Action: wait()", "Action" \o FullWidthColon \o "type(content='hi')" }

LineLists == UNION { [1..n -> TextLines] : n \in 0..MaxLines }

RECURSIVE joinLines(_, _)
joinLines(lines, i) ==
    IF i > Len(lines) THEN ""
    ELSE (IF i > 1 THEN "\n" ELSE "") \o lines[i] \o joinLines(lines, i + 1)

O1Texts == {
    "<Thought>think</Thought>\nAction_Summary: sum\nAction: click(start_box='(100,200)')\n</Output>",
    "<Thought> a </Thought>\nAction: ???</Output>",
    "<Output>\nAction: wait()  \n\n </Output>",
    "x\nAction: \n</Output>",
    "x\nAction: click()\nAction: type(content='hi') </Output>",
    "x\nAction: a\tb\r</Output>" }

StructureTexts ==
    { p \o joinLines(l, 1) : p \in TextPrefixes, l \in LineLists }

\* one line behind any of the prefixes, and the texts of the o1 dialect
ShortTexts ==
    { p \o l : p \in TextPrefixes \cup SummaryPrefixes, l \in TextLines }
    \cup O1Texts

BoxTexts == { "(100,200)", "(100,200,300,400)", "(500,400)", "[50, 40]", "(abc,200)",
              "(7)", "()", "(1,2,3)", "(-0.5, 1.25)" }

BoxTokens ==
    { "click(start_box='" \o b \o "')" : b \in BoxTexts }
    \cup { "drag(start_box='" \o b \o "', end_box='" \o c \o "')" :
             b \in {"(100,200)", "(100,x)"}, c \in {"(300,400,500,600)", ""} }
    \cup { "type(content='" \o v \o "', key=\"enter\")" : v \in {"hello", "", " a b "} }
    \cup { "click(point='<point>500 400</point>')", "click [200, 300]",
           "scroll(start_box='', direction='down')",
           "click(start_coords='x', start_box='(100,200)')" }

FactorPairs == { <<1000, 1000>>, <<1000, 500>>, <<0, 1000>> }

\* screenContext: absent, or [width, height]
Screens == { Null,
             << [width |-> 1000, height |-> 800] >>,
             << [width |-> 1000, height |-> 10] >>,
             << [width |-> 2000, height |-> 10] >>,
             << [width |-> 2010, height |-> 10] >>,
             << [width |-> 1920, height |-> 1080] >>,
             << [width |-> 0, height |-> 600] >> }

\* scaleFactor, when given
ScaleFactors == { <<1>>, <<2>> }

VlmInputs ==
    { [text |-> t, factors |-> <<1000, 1000>>, mode |-> "bc", screenContext |-> Null,
       scaleFactor |-> Null, modelVer |-> "V1_0"] :
        t \in StructureTexts \cup ShortTexts }
    \cup
    { [text |-> t, factors |-> <<1000, 1000>>, mode |-> "o1", screenContext |-> Null,
       scaleFactor |-> Null, modelVer |-> "V1_0"] : t \in ShortTexts }
    \cup
    { [text |-> "Thought: act\nAction: " \o t, factors |-> f, mode |-> "bc",
       screenContext |-> sc, scaleFactor |-> Null, modelVer |-> v] :
        t \in BoxTokens, f \in FactorPairs, sc \in Screens, v \in {"V1_0", "V1_5"} }
    \cup
    { [text |-> "Thought: act\nAction: " \o t, factors |-> <<1000, 1000>>,
       mode |-> "bc", screenContext |-> sc, scaleFactor |-> sf, modelVer |-> v] :
        t \in BoxTokens, sc \in Screens \ {Null}, sf \in ScaleFactors,
        v \in {"V1_0", "V1_5"} }

Init ==
    /\ pc = "call"
    /\ \E in \in VlmInputs :
          /\ text = in.text /\ factors = in.factors /\ mode = in.mode
          /\ screenContext = in.screenContext /\ scaleFactor = in.scaleFactor
          /\ modelVer = in.modelVer
    /\ smartResizeFactors = Null /\ reflection = Null /\ thought = Null
    /\ actionStr = "" /\ actions = << >>
    /\ resizeArgs = Unused /\ resizeRet = Unused
    /\ token = Unused /\ actionInstance = Unused

\* parseActionVlm, lines 91-260; the locals smartResizeFactors, reflection,
\* thought and actionStr are kept with the result
CallParseActionVlm ==
    /\ pc = "call"
    /\ \E ret \in { parseActionVlm(text, factors, mode, screenContext,
                                    scaleFactor, modelVer) } :
          /\ smartResizeFactors' = ret.smartResizeFactors
          /\ reflection' = ret.reflection
          /\ thought' = ret.thought
          /\ actionStr' = ret.actionStr
          /\ actions' = ret.parsed
    /\ pc' = "done"
    /\ UNCHANGED <<resizeArgs, resizeRet, token, actionInstance, text,
                   factors, mode, screenContext, scaleFactor, modelVer>>

Next == CallParseActionVlm

Spec == Init /\ [][Next]_vars

VlmDone == pc = "done"

(***************************************************************************)
(* Claims about parseActionVlm: segmentation and tokenisation              *)
(***************************************************************************)
\* The segments of a string between runs of newlines, described by where
\* they start: a position that holds no newline and follows the start of
\* the string or a newline.
SegmentStarts(s) ==
    { i \in 1..Len(s) : SubSeq(s, i, i) # "\n"
                         /\ (i = 1 \/ SubSeq(s, i - 1, i - 1) = "\n") }

SegmentAt(s, i) ==
    LET last == CHOOSE j \in i..Len(s) :
                    /\ \A k \in i..j : SubSeq(s, k, k) # "\n"
                    /\ (j = Len(s) \/ SubSeq(s, j + 1, j + 1) = "\n")
    IN SubSeq(s, i, last)

IsBlank(seg) == \A k \in 1..Len(seg) : SubSeq(seg, k, k) \in WhiteSpace

\* the starts of the segments that are not white space only
TokenStarts(s) == { i \in SegmentStarts(s) : ~IsBlank(SegmentAt(s, i)) }

\* the n-th smallest element of a finite set of numbers
Nth(S, n) == CHOOSE x \in S : Cardinality({ y \in S : y <= x }) = n

\* what the parser makes of one token: its action type ('' when it does not
\* parse)
TypeOfToken(tok) ==
    LET inst == parseAction(trimStart(tok))
    IN IF inst = Null THEN "" ELSE inst[1].function

\* C1: the result has exactly one ParsedAction per segment of the
\* action-string that is not white space only, in the order of the segments
\* (the n-th entry is the parse of the n-th segment); with no such segment
\* the result is empty.
C1_OnePerSegment ==
    VlmDone =>
        LET starts == TokenStarts(actionStr) IN
        /\ Len(actions) = Cardinality(starts)
        /\ \A n \in 1..Len(actions) :
              actions[n].action_type = TypeOfToken(SegmentAt(actionStr, Nth(starts, n)))

\* two action lines separated by a blank line: two entries, in the order of
\* the text, sharing the thought
C1_Witness ==
    /\ VlmDone
    /\ mode = "bc"
    /\ text = "Thought: go\nAction: wait()\n\nclick(start_box='(100,200)')"
    /\ Len(actions) = 2
    /\ actions[1].action_type = "wait" /\ actions[2].action_type = "click"
    /\ actions[1].thought = "go" /\ actions[2].thought = "go"

\* C1, second case reached: no segment, the empty result
C1_EmptyReached ==
    VlmDone /\ TokenStarts(actionStr) = {} /\ actions = << >> /\ text # ""

\* a token that matches neither the function-call grammar nor a word of
\* the heuristic vocabulary
Unparsable(tok) ==
    LET s == normalizeActionStr(tok)
        low == toLowerCase(s)
    IN /\ matchFunctionPattern(s) = Null
       /\ \A k \in 1..Len(commonActions) : ~includes(low, commonActions[k])

\* C2: a token that matches neither the grammar nor the vocabulary yields
\* an entry with action_type '' and empty action_inputs, and the tokens
\* after it are still parsed and emitted, each with its own action type.
C2_UnparsableToken ==
    VlmDone =>
        LET starts == TokenStarts(actionStr)
            tok(n) == SegmentAt(actionStr, Nth(starts, n))
        IN \A n \in 1..Cardinality(starts) :
              Unparsable(tok(n)) =>
                 /\ Len(actions) = Cardinality(starts)
                 /\ actions[n].action_type = ""
                 /\ DOMAIN actions[n].action_inputs = {}
                 /\ \A m \in (n + 1)..Cardinality(starts) :
                       actions[m].action_type = TypeOfToken(tok(m))

\* the token ??? followed by a token that parses
C2_Witness ==
    /\ VlmDone
    /\ TokenStarts(actionStr) # {}
    /\ SegmentAt(actionStr, Nth(TokenStarts(actionStr), 1)) = "???"
    /\ Len(actions) >= 2
    /\ actions[1].action_type = ""
    /\ actions[2].action_type = "click"

\* /Action[:：]/ occurs at position i of s
MarkerAt(s, i) ==
    /\ i + 6 <= Len(s)
    /\ SubSeq(s, i, i + 5) = "Action"
    /\ SubSeq(s, i + 6, i + 6) \in {":", FullWidthColon}

MarkerPositions(s) == { i \in 1..Len(s) : MarkerAt(s, i) }

\* the text without its leading and trailing white space
Trimmed(s) ==
    LET keep == { i \in 1..Len(s) : SubSeq(s, i, i) \notin WhiteSpace }
    IN IF keep = {} THEN ""
       ELSE SubSeq(s, CHOOSE i \in keep : \A j \in keep : i <= j,
                      CHOOSE i \in keep : \A j \in keep : i >= j)

\* C9: in bc mode the action-string is the whole trimmed text when it holds
\* no Action marker, and otherwise exactly the text after the last marker,
\* so that the result has one entry per token found after the last marker
\* and none for text between markers.
C9_ActionStringBc ==
    (VlmDone /\ mode = "bc") =>
        LET s == Trimmed(text)
            ms == MarkerPositions(s)
        IN IF ms = {} THEN actionStr = s
           ELSE LET last == CHOOSE i \in ms : \A j \in ms : j <= i
                IN /\ actionStr = SubSeq(s, last + 7, Len(s))
                   /\ Len(actions) =
                        Cardinality(TokenStarts(SubSeq(s, last + 7, Len(s))))

\* two markers with an action line between them: only the text after the
\* last marker is parsed
C9_Witness ==
    /\ VlmDone /\ mode = "bc"
    /\ text = "Thought: go\nAction: wait()\n???\nAction" \o FullWidthColon
               \o "type(content='hi')"
    /\ actionStr = "type(content='hi')"
    /\ Len(actions) = 1
    /\ thought = << "go" >>

\* C9, first case reached: a text without marker is the action-string
C9_NoMarkerReached ==
    /\ VlmDone /\ mode = "bc"
    /\ MarkerPositions(text) = {}
    /\ text = "click(start_box='(100,200)')\n???"
    /\ actionStr = text /\ Len(actions) = 2

(***************************************************************************)
(* Claims about parseActionVlm: the arguments of the parsed actions        *)
(***************************************************************************)
Tokens == splitActions(actionStr, 1)

\* the ActionCall of the n-th token: Null, or <<[function, args]>>
CallOf(n) == parseAction(trimStart(Tokens[n]))

\* the arguments of the n-th token, as a set of [key, value] entries
ArgsOf(n) ==
    IF CallOf(n) = Null THEN {}
    ELSE { CallOf(n)[1].args[j] : j \in 1..Len(CallOf(n)[1].args) }

BoxKey(k) == includes(k, "start_box") \/ includes(k, "end_box")

\* the box arguments that reach the normalizer (an argument whose value is
\* the empty string is skipped before it, see C10)
BoxArgsOf(n) == { e \in ArgsOf(n) : BoxKey(e.key) /\ e.value # "" }

CoordsKey(k) == IF includes(k, "start_box") THEN "start_coords" ELSE "end_coords"

\* the numbers written in a box value
NumbersOf(value) ==
    LET parts == splitCommas(removeBrackets(value, 1), 1)
    IN [ i \in 1..Len(parts) |-> parseFloat(parts[i]) ]

ScreenGiven ==
    screenContext # Null /\ screenContext[1].width # 0 /\ screenContext[1].height # 0

\* what smart-resize returns for the screen, with its default arguments
Resized ==
    smartResizeForV15(screenContext[1].height, screenContext[1].width,
                      MAX_RATIO, IMAGE_FACTOR, MIN_PIXELS, MAX_PIXELS_V1_5)

\* the numbers of a box value, each divided by den[1] at even (0-based)
\* positions and by den[2] at odd ones, a point written twice
DividedBy(value, den) ==
    LET nums == NumbersOf(value)
        q == [ i \in 1..Len(nums) |->
                 numDiv(nums[i], Whole(IF i % 2 = 1 THEN den[1] ELSE den[2])) ]
    IN IF Len(q) = 2 THEN << q[1], q[2], q[1], q[2] >> ELSE q

\* the denominators of C4: the smart-resize pair exactly when modelVer is
\* V1_5 and smart-resize returned a pair, the supplied Factors otherwise
Denominators ==
    IF modelVer = "V1_5" /\ ScreenGiven /\ Resized # Null THEN Resized ELSE factors

StoredIs(n, key, value) ==
    /\ key \in DOMAIN actions[n].action_inputs
    /\ actions[n].action_inputs[key] = value

FourOf(b) ==
    LET at(i) == IF i <= Len(b) THEN << b[i] >> ELSE Null
    IN << at(1), at(2), IF Len(b) >= 3 THEN at(3) ELSE at(1),
          IF Len(b) >= 4 THEN at(4) ELSE at(2) >>

AllFinite(b) == \A i \in 1..4 : FourOf(b)[i] # Null /\ isFinite(FourOf(b)[i][1])

\* round(mid * extent * factor) / factor * scale
PixelFormula(mid, extent, factor, scale) ==
    numMul(numDiv(mathRound(numMul(numMul(mid, Whole(extent)), Whole(factor))),
                  Whole(factor)),
           Whole(scale))

ScaleOrOne == IF scaleFactor = Null THEN 1 ELSE scaleFactor[1]

\* C5: with a screen of non-zero width and height, a start_box / end_box
\* argument whose four source numbers [x1, y1, x2 = x1, y2 = y1] are finite
\* stores under start_coords / end_coords the pair
\* [round(midX * width * widthFactor) / widthFactor * scaleFactor,
\*  round(midY * height * heightFactor) / heightFactor * scaleFactor],
\* midX and midY the midpoints of the normalized box, the factors the
\* supplied Factors, scaleFactor 1 when unset.  Screen 1000x800, factors
\* (1000,1000), scaleFactor 1, box '(500,400)' give [500,320].
C5_BoxCoords ==
    (VlmDone /\ ScreenGiven) =>
        /\ \A n \in 1..Len(Tokens) : \A e \in BoxArgsOf(n) :
              LET b == DividedBy(trim(e.value), Denominators)
                  x1 == FourOf(b)[1][1]
                  y1 == FourOf(b)[2][1]
                  x2 == FourOf(b)[3][1]
                  y2 == FourOf(b)[4][1]
              IN AllFinite(b) =>
                 StoredIs(n, CoordsKey(e.key),
                   ArrayValue(<<
                     PixelFormula(numDiv(numAdd(x1, x2), Whole(2)),
                                  screenContext[1].width, factors[1], ScaleOrOne),
                     PixelFormula(numDiv(numAdd(y1, y2), Whole(2)),
                                  screenContext[1].height, factors[2], ScaleOrOne) >>))
        /\ (/\ text = "Thought: act\nAction: click(start_box='(500,400)')"
            /\ screenContext = << [width |-> 1000, height |-> 800] >>
            /\ factors = <<1000, 1000>> /\ ScaleOrOne = 1 /\ modelVer = "V1_0")
           => StoredIs(1, "start_coords", ArrayValue(<< Whole(500), Whole(320) >>))

\* a drag on a 1920x1080 screen with scale factor 2: both coordinate pairs
C5_Witness ==
    /\ VlmDone /\ modelVer = "V1_0" /\ factors = <<1000, 1000>>
    /\ screenContext = << [width |-> 1920, height |-> 1080] >>
    /\ scaleFactor = <<2>>
    /\ Len(actions) = 1
    /\ StoredIs(1, "start_coords", ArrayValue(<< Whole(384), Whole(432) >>))
    /\ StoredIs(1, "end_coords", ArrayValue(<< Whole(1536), Whole(1080) >>))

\* C6: with a screen, when any of the four source numbers of a start_box /
\* end_box argument is not a finite number, the stored start_coords /
\* end_coords is the empty array.
C6_AsStated ==
    (VlmDone /\ ScreenGiven) =>
        \A n \in 1..Len(Tokens) : \A e \in BoxArgsOf(n) :
            ~AllFinite(DividedBy(trim(e.value), Denominators)) =>
                StoredIs(n, CoordsKey(e.key), ArrayValue(<< >>))

\* the aspect ratio of the screen, against a bound
RatioAbove(bound) ==
    Max(screenContext[1].height, screenContext[1].width)
        > bound * Min(screenContext[1].height, screenContext[1].width)

\* C7 as stated: for a screen of height 10 and width 1000 smart-resize fails
\* and the V1_5 pipeline divides the box numbers by the Factors.
C7_AsStated ==
    (/\ VlmDone /\ modelVer = "V1_5"
     /\ screenContext = << [width |-> 1000, height |-> 10] >>) =>
        /\ smartResizeFactors = Null
        /\ \A n \in 1..Len(Tokens) : \A e \in BoxArgsOf(n) :
              StoredIs(n, e.key, jsonStringify(DividedBy(trim(e.value), factors)))

\* C7 amended: smart-resize fails exactly when max/min of the screen exceeds
\* maxRatio = 200 (height 10, width 2010), and the V1_5 pipeline then divides
\* the box numbers by the supplied Factors and completes; a screen of height
\* 10 and width 1000 has ratio 100, smart-resize returns a pair and the box
\* numbers are divided by that pair.
C7_RatioFallback ==
    (VlmDone /\ modelVer = "V1_5" /\ ScreenGiven) =>
        /\ Len(actions) = Len(Tokens)
        /\ RatioAbove(200) =>
              /\ smartResizeFactors = Null
              /\ \A n \in 1..Len(Tokens) : \A e \in BoxArgsOf(n) :
                    StoredIs(n, e.key,
                             jsonStringify(DividedBy(trim(e.value), factors)))
        /\ ~RatioAbove(200) =>
              /\ smartResizeFactors # Null
              /\ \A n \in 1..Len(Tokens) : \A e \in BoxArgsOf(n) :
                    StoredIs(n, e.key,
                             jsonStringify(DividedBy(trim(e.value), smartResizeFactors)))

\* the fallback: ratio 201, the box divided by the factors (1000, 500)
C7_Witness ==
    /\ VlmDone /\ modelVer = "V1_5" /\ factors = <<1000, 500>>
    /\ screenContext = << [width |-> 2010, height |-> 10] >>
    /\ smartResizeFactors = Null
    /\ Len(actions) = 1
    /\ StoredIs(1, "start_box",
                [t |-> "json", s |-> "",
                 a |-> << Rat(1, 10), Rat(2, 5), Rat(1, 10), Rat(2, 5) >>])

\* C10 as stated: every argument whose key contains neither start_box nor
\* end_box is stored under its key as its trimmed raw value; none is
\* dropped or altered.
C10_AsStated ==
    VlmDone =>
        \A n \in 1..Len(Tokens) : \A e \in ArgsOf(n) :
            ~BoxKey(e.key) => StoredIs(n, e.key, StringValue(Trimmed(e.value)))

\* C10 amended: every argument whose key contains neither start_box nor
\* end_box, and is not start_coords or end_coords (which the coordinates
\* derived from a box argument overwrite), is stored under its key as its
\* trimmed raw value, otherwise unchanged, when its value is not the empty
\* string; an argument whose value is the empty string is skipped and its
\* key is absent.
C10_OtherArgs ==
    VlmDone =>
        /\ Len(actions) = Len(Tokens)
        /\ \A n \in 1..Len(Tokens) : \A e \in ArgsOf(n) :
              (~BoxKey(e.key) /\ e.key \notin {"start_coords", "end_coords"}) =>
                 IF e.value # ""
                 THEN StoredIs(n, e.key, StringValue(Trimmed(e.value)))
                 ELSE e.key \notin DOMAIN actions[n].action_inputs

\* a value with surrounding blanks is stored trimmed, beside another argument
C10_Witness ==
    /\ VlmDone
    /\ text = "Thought: act\nAction: type(content=' a b ', key=\"enter\")"
    /\ Len(actions) = 1
    /\ StoredIs(1, "content", StringValue("a b"))
    /\ StoredIs(1, "key", StringValue("enter"))

=============================================================================
